---- MODULE Spec2Model ----
(***************************************************************************)
(* talking-robot: the audio -> envelope -> frame pipeline of Waveform.py    *)
(* (read_info, read_audio, envelope, visualize, draw_env) and the polling   *)
(* viewer of DisplayWave.py (update), which consumes the frame files the    *)
(* pipeline writes into ./generated/tmp/.                                   *)
(*                                                                         *)
(* Numbers are integers.  Python's float arithmetic is modelled by the     *)
(* exact rational value, except where a result is truncated by int(): a    *)
(* product or quotient chain whose intermediate values are not dyadic      *)
(* rationals is rounded, and when its exact value is a nonzero integer k   *)
(* the rounded value may fall just short of k, so that int() yields the    *)
(* neighbour of k nearer to zero (0.29 * 100 = 28.999999999999996).        *)
(* FloatInt gives both outcomes.                                            *)
(*                                                                         *)
(* Sample values are symbolic after normalisation: "fin" (a finite         *)
(* number), "inf", "-inf" and "nan", which is all the envelope's           *)
(* NaN-propagation needs.                                                   *)
(***************************************************************************)
EXTENDS Integers, Sequences, FiniteSets, TLC

VARIABLES
    posix,      \* the platform: POSIX (TRUE) or Windows (FALSE)
    stereo, rate, bars, time, oversample,   \* arguments of visualize
    pc,         \* position of the visualize call
    err,        \* the exception that ended the call, or "none"
    streams,    \* codec types of the probed streams (read_info's result)
    channels,   \* stream['channels']
    sr,         \* samplerate
    wav,        \* read_audio's array: one sample sequence per channel
    wavs,       \* normalised channels (symbolic values)
    std0,       \* per entry of wavs: wav.std() was 0
    window, stride,
    envs,       \* padded envelope per channel
    frames, idx,
    slice,      \* <<>> or <<off, env1, env2>> of the frame last interpolated
    written,    \* paths whose write_to_png completed, in order, with their idx
    dir,        \* ./generated/tmp/: file name -> "partial" | "complete"
    vpc,        \* position of the viewer's update tick
    shown,      \* <<>> or <<name>>: the file this tick opened and displayed
    displayed,  \* names the viewer has displayed so far
    removals,   \* <<shown, removed>> of every os.remove that succeeded
    openedPartial,  \* the viewer opened a file whose write was not complete
    removedPartial  \* the viewer removed a file whose write was not complete

vars == <<posix, stereo, rate, bars, time, oversample, pc, err, streams, channels,
          sr, wav, wavs, std0, window, stride, envs, frames, idx, slice, written,
          dir, vpc, shown, displayed, removals, openedPartial, removedPartial>>

pipeVars == <<pc, err, streams, channels, sr, wav, wavs, std0, window, stride,
              envs, frames, idx, slice, written>>
viewVars == <<vpc, shown, displayed, removals, openedPartial, removedPartial>>
argVars == <<posix, stereo, rate, bars, time, oversample>>

----------------------------------------------------------------------------
(* Bounds of the model *)
MaxSamples == 5
MaxSampleRate == 3
MaxRate == 3
MaxBars == 2
MaxTime == 1
MaxOversample == 2
MaxWindow == 4

(* The clip id passed to visualize. *)
AudioID == 7

----------------------------------------------------------------------------
(* Arithmetic helpers *)
Abs(x) == IF x < 0 THEN -x ELSE x

Sign(x) == IF x < 0 THEN -1 ELSE IF x > 0 THEN 1 ELSE 0

Max(a, b) == IF a >= b THEN a ELSE b

Min(a, b) == IF a <= b THEN a ELSE b

\* int(a / b): the quotient truncated toward zero (b # 0)
Trunc(a, b) ==
    LET q == Abs(a) \div Abs(b)
    IN  IF (a < 0) # (b < 0) THEN -q ELSE q

\* ceil(a / b) for b > 0
CeilDiv(a, b) == -((-a) \div b)

\* round(a / b) as Python rounds, halves to the even neighbour (a >= 0, b > 0)
RoundDiv(a, b) ==
    LET q == a \div b
        r == a % b
    IN  IF 2 * r < b THEN q
        ELSE IF 2 * r > b THEN q + 1
        ELSE IF q % 2 = 0 THEN q ELSE q + 1

RECURSIVE GCD(_, _)
GCD(a, b) == IF b = 0 THEN a ELSE GCD(b, a % b)

RECURSIVE IsPow2(_)
IsPow2(d) == IF d = 1 THEN TRUE ELSE IF d % 2 = 1 THEN FALSE ELSE IsPow2(d \div 2)

\* a / b is a dyadic rational: a float holds it exactly (b # 0)
Dyadic(a, b) ==
    LET g == GCD(Abs(a), Abs(b))
    IN  IsPow2(Abs(b) \div g)

\* int(x) of a float x whose exact value is num / den; exact says that no
\* rounding happened on the way to x.
FloatInt(num, den, exact) ==
    LET t == Trunc(num, den)
    IN  IF exact \/ Abs(num) % Abs(den) # 0 \/ t = 0
        THEN {t}
        ELSE {t, t - Sign(t)}

----------------------------------------------------------------------------
(* Python sequences *)

\* list(range(start, stop, step)), built as the for loop walks it
RECURSIVE PyRange(_, _, _)
PyRange(start, stop, step) ==
    IF (step > 0 /\ start < stop) \/ (step < 0 /\ start > stop)
    THEN <<start>> \o PyRange(start + step, stop, step)
    ELSE <<>>

\* a slice bound as Python normalises it against a sequence of length n
SliceBound(n, i) == IF i < 0 THEN Max(i + n, 0) ELSE Min(i, n)

\* s[a:b]
PySlice(s, a, b) ==
    LET lo == SliceBound(Len(s), a)
        hi == SliceBound(Len(s), b)
    IN  IF hi > lo THEN SubSeq(s, lo + 1, hi) ELSE <<>>

\* np.pad(s, (head, tail)) with zeros
Pad(s, head, tail) ==
    [i \in 1..head |-> "fin"] \o s \o [i \in 1..tail |-> "fin"]

HasNaN(s) == \E i \in 1..Len(s) : s[i] = "nan"

----------------------------------------------------------------------------
(* File names *)

DigitChar(d) == <<"0", "1", "2", "3", "4", "5", "6", "7", "8", "9">>[d + 1]

\* str(n) for n >= 0
RECURSIVE Digits(_)
Digits(n) ==
    IF n < 10 THEN <<DigitChar(n)>> ELSE Digits(n \div 10) \o <<DigitChar(n % 10)>>

\* f"{n:06d}": at least six digits, padded on the left with zeros
Fmt06(n) ==
    LET d == Digits(n)
    IN  [i \in 1..(6 - Len(d)) |-> "0"] \o d

\* f"{audioID}-{idx:06d}.png"
FramePath(id, i) == Digits(id) \o <<"-">> \o Fmt06(i) \o <<".", "p", "n", "g">>

ZZZ == <<"z", "z", "z", ".", "p", "n", "g">>

\* the code point order of the characters file names are made of
CharCode(c) ==
    CASE c = "-" -> 45
      [] c = "." -> 46
      [] c = "0" -> 48 [] c = "1" -> 49 [] c = "2" -> 50 [] c = "3" -> 51
      [] c = "4" -> 52 [] c = "5" -> 53 [] c = "6" -> 54 [] c = "7" -> 55
      [] c = "8" -> 56 [] c = "9" -> 57
      [] c = "g" -> 103 [] c = "n" -> 110 [] c = "p" -> 112 [] c = "z" -> 122

\* a < b as Python compares strings
RECURSIVE StrLess(_, _)
StrLess(a, b) ==
    IF b = <<>> THEN FALSE
    ELSE IF a = <<>> THEN TRUE
    ELSE IF CharCode(Head(a)) # CharCode(Head(b))
         THEN CharCode(Head(a)) < CharCode(Head(b))
         ELSE StrLess(Tail(a), Tail(b))

----------------------------------------------------------------------------
(* read_info / read_audio *)

\* stream['channels']: mono, stereo, and one more
ChannelCounts == {1, 2, 3}

CodecTypes == {"audio", "video"}

\* info['streams'] as the codec types of the streams, zero to two of them
StreamLists ==
    {<<>>} \cup {<<a>> : a \in CodecTypes}
           \cup {<<a, b>> : a \in CodecTypes, b \in CodecTypes}

\* the sample sequences one channel may hold: silence, a constant, a tone
ChannelSignals(n) ==
    { [i \in 1..n |-> 0],
      [i \in 1..n |-> 1],
      [i \in 1..n |-> IF i % 2 = 1 THEN 1 ELSE -1] }

Fail(e) == pc' = "failed" /\ err' = e

\* read_audio(audio): the probe, the check of the first stream, the decode.
\* With shell=True and an argument list, a POSIX shell runs ffprobe without
\* its arguments, which exits non-zero.
ReadAudio(Lens, SampleRates, Chans) ==
    /\ pc = "start"
    /\ \/ /\ Fail("IOError")
          /\ UNCHANGED <<streams, channels, sr, wav>>
       \/ /\ ~posix
          /\ \E ss \in StreamLists :
               /\ streams' = ss
               /\ IF ss = <<>>
                  THEN Fail("IndexError") /\ UNCHANGED <<channels, sr, wav>>
                  ELSE IF ss[1] # "audio"
                  THEN Fail("ValueError") /\ UNCHANGED <<channels, sr, wav>>
                  ELSE \/ /\ Fail("CalledProcessError")
                          /\ UNCHANGED <<channels, sr, wav>>
                       \/ \E c \in Chans, r \in SampleRates, n \in Lens :
                            \E w \in [1..c -> ChannelSignals(n)] :
                               /\ channels' = c
                               /\ sr' = r
                               /\ wav' = w
                               /\ pc' = "decoded"
                               /\ err' = "none"
    /\ UNCHANGED <<wavs, std0, window, stride, envs, frames, idx, slice, written>>
    /\ UNCHANGED <<argVars, dir, viewVars>>

----------------------------------------------------------------------------
(* visualize, up to the frame loop *)

\* wav.mean(0), as the sum over the channels (the mean times the channel count)
RECURSIVE SumAt(_, _, _)
SumAt(w, c, i) == IF c = 0 THEN 0 ELSE w[c][i] + SumAt(w, c - 1, i)

Mean0(w) == [i \in 1..Len(w[1]) |-> SumAt(w, Len(w), i)]

\* wav.std() == 0: a non-empty channel whose samples are all equal
StdZero(s) == Len(s) >= 1 /\ \A i \in 1..Len(s) : s[i] = s[1]

\* wav / wav.std(): numpy divides by zero without raising
Normalize(s) ==
    IF StdZero(s)
    THEN [i \in 1..Len(s) |-> IF s[i] = 0 THEN "nan"
                              ELSE IF s[i] > 0 THEN "inf" ELSE "-inf"]
    ELSE [i \in 1..Len(s) |-> "fin"]

\* 1.9 * (sigmoid(2.5 * np.maximum(frame, 0).mean()) - 0.5)
Pool(frame) == IF frame = <<>> \/ HasNaN(frame) THEN "nan" ELSE "fin"

\* the loop's stop bound moved to take in the last full window
EnvelopeOffsetsInclusive(n, win, str) ==
    PyRange(0, (n + 2 * (win \div 2)) - win + 1, str)

\* the offsets envelope's loop visits
EnvelopeOffsets(n, win, str) == PyRange(0, (n + 2 * (win \div 2)) - win, str)

\* envelope(wav, window, stride), for window // 2 >= 0 and stride # 0
Envelope(w, win, str) ==
    LET padded == Pad(w, win \div 2, win \div 2)
        offs == EnvelopeOffsets(Len(w), win, str)
    IN  [k \in 1..Len(offs) |-> Pool(PySlice(padded, offs[k], offs[k] + win))]

\* int(sr * time / bars)
Window(r, t, b) == Trunc(r * t, b)

\* int(window / oversample)
Stride(win, os) == Trunc(win, os)

\* the frame count rounded to the nearest integer instead of truncated
FrameCountsRounded(rt, n, r) == {RoundDiv(rt * n, r)}

\* int(rate * duration), duration = len(wavs[0]) / sr
FrameCounts(rt, n, r) == FloatInt(rt * n, r, Dyadic(n, r))

\* the channel check left out
StereoOkUnchecked(st, w) == TRUE

\* assert wav.shape[0] == 2, checked when stereo is set (assertions enabled)
StereoOk(st, w) == ~st \/ Len(w) = 2

\* the tail pad one window short
PaddedEnvelopeShortTail(w, win, str, b) == Pad(Envelope(w, win, str), b \div 2, b)

\* np.pad(envelope(wav, window, stride), (bars // 2, 2 * bars))
PaddedEnvelope(w, win, str, b) == Pad(Envelope(w, win, str), b \div 2, 2 * b)

\* Lines 185 to 207: the channels, their normalisation, window and stride,
\* the padded envelopes, the frame count.
Prepare ==
    /\ pc = "decoded"
    /\ IF ~StereoOk(stereo, wav)
       THEN /\ Fail("AssertionError")
            /\ UNCHANGED <<wav, wavs, std0, window, stride, envs, frames>>
       ELSE IF stereo /\ Len(wav) < 2
       THEN /\ Fail("IndexError")
            /\ UNCHANGED <<wav, wavs, std0, window, stride, envs, frames>>
       ELSE
         LET chans == IF stereo THEN <<wav[1], wav[2]>> ELSE <<Mean0(wav)>>
             norm == [i \in 1..Len(chans) |-> Normalize(chans[i])]
             win == Window(sr, time, bars)
             str == Stride(win, oversample)
             n == Len(norm[1])
         IN  /\ wavs' = norm
             /\ std0' = [i \in 1..Len(chans) |-> StdZero(chans[i])]
             /\ window' = win
             /\ IF oversample = 0
                THEN /\ Fail("ZeroDivisionError")
                     /\ wav' = chans[Len(chans)]
                     /\ UNCHANGED <<stride, envs, frames>>
                ELSE /\ stride' = str
                     /\ wav' = norm[IF win \div 2 < 0 \/ str = 0 THEN 1 ELSE Len(norm)]
                     /\ IF win \div 2 < 0 \/ str = 0
                        THEN /\ Fail("ValueError")
                             /\ UNCHANGED <<envs, frames>>
                        ELSE /\ envs' = [i \in 1..Len(norm) |->
                                           PaddedEnvelope(norm[i], win, str, bars)]
                             /\ \E f \in FrameCounts(rate, n, sr) : frames' = f
                             /\ pc' = "loop"
                             /\ err' = "none"
    /\ UNCHANGED <<streams, channels, sr, idx, slice, written>>
    /\ UNCHANGED <<argVars, dir, viewVars>>

----------------------------------------------------------------------------
(* visualize: the frame loop, and draw_env *)

\* int(pos), pos = (((idx / rate)) * sr) / stride / bars
Offsets(i, rt, r, str, b) ==
    FloatInt(i * r, rt * str * b,
             /\ Dyadic(i, rt)
             /\ Dyadic(i * r, rt * str)
             /\ Dyadic(i * r, rt * str * b))

\* numpy broadcasts two one-dimensional shapes
Broadcastable(a, b) == a = b \/ a = 1 \/ b = 1

BroadcastLen(a, b) == IF a = 1 THEN b ELSE a

\* One iteration of the loop up to the point where write_to_png has created
\* the file: the two slices, env2.max(), the blend, the taper, draw_env.
FrameBegin ==
    /\ pc = "loop"
    /\ idx < frames
    /\ \E off \in Offsets(idx, rate, sr, stride, bars) :
         LET env == envs[1]
             env1 == PySlice(env, off * bars, (off + 1) * bars)
             env2 == PySlice(env, (off + 1) * bars, (off + 2) * bars)
             T == BroadcastLen(Len(env1), Len(env2))
         IN  /\ slice' = <<off, env1, env2>>
             /\ IF \/ env2 = <<>>
                   \/ ~Broadcastable(Len(env1), Len(env2))
                   \/ ~(bars = T \/ bars = 1)
                THEN Fail("ValueError") /\ UNCHANGED dir
                ELSE IF T = 0
                THEN Fail("ZeroDivisionError") /\ UNCHANGED dir
                ELSE /\ dir' = [f \in DOMAIN dir \cup {FramePath(AudioID, idx)} |->
                                  IF f = FramePath(AudioID, idx) THEN "partial"
                                  ELSE dir[f]]
                     /\ pc' = "drawing"
                     /\ err' = "none"
    /\ UNCHANGED <<streams, channels, sr, wav, wavs, std0, window, stride, envs,
                   frames, idx, written>>
    /\ UNCHANGED <<argVars, viewVars>>

\* the loop skipping every other index
NextIdxSkip(i) == i + 2

\* the next index of range(frames)
NextIdx(i) == i + 1

\* write_to_png returns: the file is whole, and the loop moves on

FrameEnd ==
    /\ pc = "drawing"
    /\ dir' = [f \in DOMAIN dir |->
                 IF f = FramePath(AudioID, idx) THEN "complete" ELSE dir[f]]
    /\ written' = Append(written, <<idx, FramePath(AudioID, idx)>>)
    /\ idx' = NextIdx(idx)
    /\ pc' = "loop"
    /\ UNCHANGED <<err, streams, channels, sr, wav, wavs, std0, window, stride,
                   envs, frames, slice>>
    /\ UNCHANGED <<argVars, viewVars>>

\* range(frames) is exhausted
Finish ==
    /\ pc = "loop"
    /\ idx >= frames
    /\ pc' = "done"
    /\ UNCHANGED <<err, streams, channels, sr, wav, wavs, std0, window, stride,
                   envs, frames, idx, slice, written>>
    /\ UNCHANGED <<argVars, dir, viewVars>>

----------------------------------------------------------------------------
(* DisplayWave.update: one tick is up to three listings of the directory *)

\* os.listdir(...)[0]; the listing is taken in name order, the order the
\* viewer relies on to keep zzz.png last
First(d) == CHOOSE f \in DOMAIN d : \A g \in DOMAIN d : g = f \/ StrLess(f, g)

\* line 8: list, open, display.  A file still being written may fail to
\* load, and the bare except ends the tick.
ViewOpen ==
    /\ vpc = "idle"
    /\ IF DOMAIN dir = {}
       THEN UNCHANGED viewVars
       ELSE LET f == First(dir)
            IN  /\ openedPartial' = (openedPartial \/ dir[f] = "partial")
                /\ \/ /\ dir[f] = "partial"
                      /\ UNCHANGED <<vpc, shown, displayed>>
                   \/ /\ shown' = <<f>>
                      /\ displayed' = displayed \cup {f}
                      /\ vpc' = "opened"
                /\ UNCHANGED <<removals, removedPartial>>
    /\ UNCHANGED <<argVars, pipeVars, dir>>

\* line 13: list again, compare the first entry with zzz.png
ViewCheck ==
    /\ vpc = "opened"
    /\ IF DOMAIN dir # {} /\ First(dir) # ZZZ
       THEN vpc' = "checked" /\ UNCHANGED shown
       ELSE vpc' = "idle" /\ shown' = <<>>
    /\ UNCHANGED <<displayed, removals, openedPartial, removedPartial>>
    /\ UNCHANGED <<argVars, pipeVars, dir>>

\* line 14: list a third time, remove the first entry.  Windows refuses to
\* delete a file another process holds open for writing.
ViewRemove ==
    /\ vpc = "checked"
    /\ IF DOMAIN dir = {} \/ (dir[First(dir)] = "partial" /\ ~posix)
       THEN UNCHANGED <<dir, removals, removedPartial>>
       ELSE LET f == First(dir)
            IN  /\ dir' = [g \in DOMAIN dir \ {f} |-> dir[g]]
                /\ removals' = removals \cup {<<shown[1], f>>}
                /\ removedPartial' = (removedPartial \/ dir[f] = "partial")
    /\ vpc' = "idle"
    /\ shown' = <<>>
    /\ UNCHANGED <<displayed, openedPartial>>
    /\ UNCHANGED <<argVars, pipeVars>>

----------------------------------------------------------------------------
(* Specifications *)

ArgsIn(Platforms, Stereos, Rates, Bars, Times, Oversamples) ==
    /\ posix \in Platforms
    /\ stereo \in Stereos
    /\ rate \in Rates
    /\ bars \in Bars
    /\ time \in Times
    /\ oversample \in Oversamples

\* what a call has not computed yet
Untouched ==
    /\ err = "none"
    /\ streams = <<>>
    /\ channels = 0
    /\ sr = 0
    /\ wav = <<>>
    /\ std0 = <<>>
    /\ envs = <<>>
    /\ frames = 0
    /\ idx = 0
    /\ slice = <<>>
    /\ written = <<>>

ViewerIn(Dirs, v) ==
    /\ dir \in Dirs
    /\ vpc = v
    /\ shown = <<>>
    /\ displayed = {}
    /\ removals = {}
    /\ openedPartial = FALSE
    /\ removedPartial = FALSE

EmptyDir == [f \in {} |-> "complete"]

\* the directory between clips: only the idle picture
IdleDir == [f \in {ZZZ} |-> "complete"]

\* one call of visualize, no viewer running
Init ==
    /\ ArgsIn(BOOLEAN, BOOLEAN, 1..MaxRate, 1..MaxBars, 0..MaxTime, -1..MaxOversample)
    /\ pc = "start"
    /\ wavs = <<>>
    /\ window = 0
    /\ stride = 0
    /\ Untouched
    /\ ViewerIn({IdleDir}, "off")

Next ==
    \/ ReadAudio(0..MaxSamples, 1..MaxSampleRate, ChannelCounts)
    \/ Prepare
    \/ FrameBegin
    \/ FrameEnd
    \/ Finish

Spec == Init /\ [][Next]_vars

\* one call of visualize with the viewer polling the directory
InitView ==
    /\ ArgsIn(BOOLEAN, BOOLEAN, {1, 2}, {1, 2}, {1}, {1})
    /\ pc = "start"
    /\ wavs = <<>>
    /\ window = 0
    /\ stride = 0
    /\ Untouched
    /\ ViewerIn({EmptyDir, IdleDir}, "idle")

NextView ==
    \/ ReadAudio(1..2, {1}, {1, 2})
    \/ Prepare
    \/ FrameBegin
    \/ FrameEnd
    \/ Finish
    \/ ViewOpen
    \/ ViewCheck
    \/ ViewRemove

SpecView == InitView /\ [][NextView]_vars

\* envelope(wav, window, stride) on its own, for window >= stride >= 1
EnvelopeCall ==
    /\ pc = "envelope"
    /\ envs' = <<Envelope(wavs[1], window, stride)>>
    /\ pc' = "enveloped"
    /\ UNCHANGED <<err, streams, channels, sr, wav, wavs, std0, window, stride,
                   frames, idx, slice, written>>
    /\ UNCHANGED <<argVars, dir, viewVars>>

InitEnvelope ==
    /\ ArgsIn({FALSE}, {FALSE}, {1}, {1}, {1}, {1})
    /\ pc = "envelope"
    /\ \E n \in 0..MaxSamples, v \in {"fin", "nan"} : wavs = <<[i \in 1..n |-> v]>>
    /\ window \in 1..MaxWindow
    /\ stride \in 1..window
    /\ Untouched
    /\ ViewerIn({IdleDir}, "off")

NextEnvelope == EnvelopeCall

SpecEnvelope == InitEnvelope /\ [][NextEnvelope]_vars

----------------------------------------------------------------------------
(* Properties *)

\* the call got as far as the frame loop
InLoop == pc \in {"loop", "drawing", "done"}

\* the number of samples per channel
NSamples == Len(wavs[1])

DigitValue(c) == CharCode(c) - 48

RECURSIVE ParseInt(_)
ParseInt(s) == IF s = <<>> THEN 0 ELSE 10 * ParseInt(SubSeq(s, 1, Len(s) - 1)) + DigitValue(s[Len(s)])

ValidParams == window >= stride /\ stride >= 1 /\ bars >= 1

\* C1: in one run of visualize the k-th frame written is the frame of index
\* k - 1, written to <tmp>/<audioID>-<index as six zero-padded digits>.png;
\* no two frames of the run share a path, and a run that completes has
\* written exactly one file for every index below frames.
C1_FramesInOrder ==
    /\ \A k \in 1..Len(written) :
         LET p == written[k][2]
             head == Len(Digits(AudioID))
         IN  /\ written[k][1] = k - 1
             /\ Len(p) = head + 11
             /\ SubSeq(p, 1, head + 1) = Digits(AudioID) \o <<"-">>
             /\ ParseInt(SubSeq(p, head + 2, head + 7)) = k - 1
             /\ SubSeq(p, head + 8, head + 11) = <<".", "p", "n", "g">>
    /\ \A j, k \in 1..Len(written) : j # k => written[j][2] # written[k][2]
    /\ pc \in {"loop", "drawing"} => Len(written) = idx
    /\ pc = "done" => Len(written) = frames

C1_Witness == pc = "done" /\ frames >= 3 /\ Len(written) = frames

\* C2 as claimed, on runs with valid parameters and a signal that is not
\* degenerate: the frame count is round(framerate * samples / sample rate)
C2_FramesRounded ==
    (InLoop /\ ValidParams /\ ~std0[1]) => frames = RoundDiv(rate * NSamples, sr)

\* C2: the frame count is framerate * duration truncated, not rounded: it is
\* the largest integer not above rate * samples / sr, or one less than that
\* when the product is an exact integer that the rounding of samples / sr
\* leaves just short; a clip of exactly one second gives rate frames.
C2_FramesTruncated ==
    InLoop =>
        /\ frames * sr <= rate * NSamples
        /\ \/ rate * NSamples < (frames + 1) * sr
           \/ rate * NSamples = (frames + 1) * sr /\ ~Dyadic(NSamples, sr)
        /\ NSamples = sr => frames = rate

C2_Witness ==
    /\ pc = "done"
    /\ frames >= 2
    /\ 2 * ((rate * NSamples) % sr) >= sr
    /\ Len(written) = frames

\* C3: with window >= stride >= 1 and bars >= 1, both slices of every frame
\* lie inside the padded envelope: (off + 2) * bars <= len(env), and each
\* slice has exactly bars elements.
C3_SlicesInBounds ==
    (slice # <<>> /\ ValidParams) =>
        /\ slice[1] >= 0
        /\ (slice[1] + 2) * bars <= Len(envs[1])
        /\ Len(slice[2]) = bars
        /\ Len(slice[3]) = bars

C3_Witness ==
    /\ pc = "drawing"
    /\ ValidParams
    /\ idx = frames - 1
    /\ slice[1] >= 2
    /\ (slice[1] + 2) * bars = Len(envs[1]) - (bars \div 2)

PaddedLength == NSamples + 2 * (window \div 2)

\* C4 as claimed, on inputs at least one window long: envelope returns
\* floor((padded_length - window) / stride) values
C4_LengthFloor ==
    (pc = "enveloped" /\ NSamples >= window) =>
        Len(envs[1]) = (PaddedLength - window) \div stride

\* C4: for window >= stride >= 1, envelope returns
\* ceil((padded_length - window) / stride) values, and none when
\* padded_length <= window (an empty input).
C4_LengthCeil ==
    pc = "enveloped" =>
        Len(envs[1]) = IF PaddedLength <= window THEN 0
                       ELSE CeilDiv(PaddedLength - window, stride)

C4_Witness ==
    /\ pc = "enveloped"
    /\ (PaddedLength - window) % stride # 0
    /\ Len(envs[1]) >= 2

\* visualize was called with stereo=True on decoded audio that is not two channels
StereoMismatch == stereo /\ channels # 0 /\ channels # 2 /\ pc # "decoded"

C6_DegenerateFails ==
    ((\E i \in 1..Len(std0) : std0[i]) /\ ValidParams) =>
        pc = "failed" /\ written = <<>>

\* the derived window and stride of a run that got as far as deriving them
Derived == wavs # <<>> /\ oversample # 0

\* C7 as claimed, with any exception taken for InvalidParameterError: when
\* the derived window or stride is less than 1 the run fails and no frame is
\* rendered.
C7_InvalidParamsFail ==
    (Derived /\ (window < 1 \/ stride < 1)) =>
        pc = "failed" /\ written = <<>> /\ dir = IdleDir

\* C8 as claimed: read_audio returns samples only for media of exactly one
\* stream, of audio type.
C8_SingleAudioStream ==
    channels # 0 => Len(streams) = 1 /\ streams[1] = "audio"

\* C9 as claimed: the viewer never opens or removes a file whose write is
\* not complete.
C9_NoPartialFileSeen == ~openedPartial /\ ~removedPartial

\* C10 as claimed: the file a tick removes is the file it opened and
\* displayed, and it is never zzz.png.
C10_RemovesWhatItShowed ==
    \A r \in removals : r[1] = r[2] /\ r[2] # ZZZ

====
